---- MODULE Spec2Model ----
(***************************************************************************)
(* A model of the overlay sandbox engine of clai (sandbox/overlayfs.py):   *)
(* OverlayFS.__init__ (open), run_command (run) and cleanup (close), over  *)
(* one host filesystem.  Paths are strings, as in the source, so that the  *)
(* source's str.startswith / os.path.join / os.path.relpath computations   *)
(* are computed and not assumed.  The filesystem is one map from absolute  *)
(* path to node; the scratch directory of the session lives in the same    *)
(* map, under temp_root.                                                   *)
(*                                                                         *)
(* The kernel is modelled by what overlayfs documents: a lookup in a       *)
(* merged view consults the upper layer first, a 0/0 character device in   *)
(* the upper layer hides the lower entry of that name, an opaque directory *)
(* is a directory whose lower content is cut off, and the lower layer of   *)
(* an overlay is one filesystem (what is mounted below it is not seen).    *)
(***************************************************************************)
EXTENDS Integers, Sequences, FiniteSets, TLC

(***************************************************************************)
(* Bounds of the model.                                                    *)
(***************************************************************************)
\* run_command calls per session
MaxRuns == 2
\* calls (mount, umount, mknod, ...) that fail during one session
MaxFaults == 2
\* calls that fail inside one open
MaxOpenFaults == 1
\* cleanup calls per session
MaxCloses == 2

(***************************************************************************)
(* Python str and os.path operations used by the source.                   *)
(***************************************************************************)
StartsWith(s, p) == Len(s) >= Len(p) /\ SubSeq(s, 1, Len(p)) = p

EndsWith(s, p) == Len(s) >= Len(p) /\ SubSeq(s, Len(s) - Len(p) + 1, Len(s)) = p

RECURSIVE LStrip(_)
\* s.lstrip("/")
LStrip(s) == IF s # "" /\ Head(s) = "/" THEN LStrip(Tail(s)) ELSE s

RECURSIVE RStrip(_)
\* s.rstrip("/")
RStrip(s) ==
    IF s # "" /\ EndsWith(s, "/") THEN RStrip(SubSeq(s, 1, Len(s) - 1)) ELSE s

RECURSIVE ReplaceSlash(_)
\* s.replace("/", "_")
ReplaceSlash(s) ==
    IF s = "" THEN ""
    ELSE (IF Head(s) = "/" THEN "_" ELSE Head(s)) \o ReplaceSlash(Tail(s))

\* os.path.join(a, b)
Join(a, b) ==
    IF StartsWith(b, "/") THEN b
    ELSE IF a = "" \/ EndsWith(a, "/") THEN a \o b
    ELSE a \o "/" \o b

RECURSIVE LastSlash(_, _)
\* index of the last "/" of s at or before position i (0 when there is none)
LastSlash(s, i) ==
    IF i = 0 THEN 0
    ELSE IF SubSeq(s, i, i) = "/" THEN i
    ELSE LastSlash(s, i - 1)

\* os.path.dirname(p)
Dirname(p) ==
    LET i == LastSlash(p, Len(p))
        head == SubSeq(p, 1, i)
    IN  IF head # "" /\ RStrip(head) # "" THEN RStrip(head) ELSE head

\* os.path.basename(p)
Basename(p) == SubSeq(p, LastSlash(p, Len(p)) + 1, Len(p))

\* os.path.relpath(path, start), for the absolute normalised paths the source
\* passes: "." for start itself, the remainder below start, and a path that
\* begins with ".." for everything else.
RelPath(path, start) ==
    LET pre == RStrip(start) \o "/"
    IN  IF path = start THEN "."
        ELSE IF StartsWith(path, pre) THEN SubSeq(path, Len(pre) + 1, Len(path))
        ELSE ".."

\* p is d itself or lies below d (component-wise)
Under(p, d) == p = d \/ StartsWith(p, RStrip(d) \o "/")

(***************************************************************************)
(* The host before the session.  "/" is the root filesystem, "/m" a        *)
(* second filesystem mounted on it (as /home on its own partition), "/b"   *)
(* the directory the session is opened on, "/s" a sensitive regular file   *)
(* (as /etc/shadow), "/k" a sensitive directory (as /etc/sudoers.d),       *)
(* "/m/h" a sensitive file on the submount, "/b/d" a directory and "/b/f"   *)
(* and "/t" ordinary files, "/bx" a directory beside "/b".                 *)
(* "/T" is the directory tempfile.mkdtemp returns.                         *)
(***************************************************************************)
HostPaths ==
    {"/", "/s", "/k", "/k/x", "/b", "/b/f", "/b/d", "/bx", "/m", "/m/g", "/m/h",
     "/t"}

VARIABLE temp_root   \* self.temp_root of the session whose step is running

\* every session given the same scratch directory
SharedTempRoot == "/T"

\* self.temp_root = tempfile.mkdtemp(prefix="overlay_")
TempRoot == temp_root

\* Node kinds: "none" (no entry), "dir", "opq" (directory carrying
\* trusted.overlay.opaque=y), "wh" (character device 0/0), "chr" (character
\* device with another device number), and a regular file, named by its
\* content (which stands for content, mode and mtime).
Contents == {"old", "sec", "new", "alt"}

IsFile(n) == n \in Contents

IsDir(n) == n \in {"dir", "opq"}

\* the filesystem before the session: a map from path to node (a path that
\* is not in the map has no entry)
HostInit ==
    [p \in HostPaths |->
        CASE p \in {"/", "/k", "/b", "/b/d", "/bx", "/m"} -> "dir"
          [] p \in {"/s", "/k/x", "/m/h"} -> "sec"
          [] OTHER -> "old"]

\* mount targets of the host before the session (findmnt -rn -o TARGET)
HostMounts == {"/", "/m"}

\* code points of the characters that occur in the model's paths (for sorted())
Ord(c) ==
    CASE c = "/" -> 47
      [] c = "T" -> 84
      [] c = "U" -> 85
      [] c = "_" -> 95
      [] c = "a" -> 97
      [] c = "b" -> 98
      [] c = "d" -> 100
      [] c = "e" -> 101
      [] c = "f" -> 102
      [] c = "g" -> 103
      [] c = "h" -> 104
      [] c = "k" -> 107
      [] c = "m" -> 109
      [] c = "n" -> 110
      [] c = "o" -> 111
      [] c = "p" -> 112
      [] c = "r" -> 114
      [] c = "s" -> 115
      [] c = "t" -> 116
      [] c = "u" -> 117
      [] c = "w" -> 119
      [] c = "x" -> 120
      [] OTHER -> 122

RECURSIVE StrLess(_, _)
\* a < b, as Python compares str
StrLess(a, b) ==
    IF b = "" THEN FALSE
    ELSE IF a = "" THEN TRUE
    ELSE IF Head(a) = Head(b) THEN StrLess(Tail(a), Tail(b))
    ELSE Ord(Head(a)) < Ord(Head(b))

RECURSIVE Sorted(_)
\* sorted(S): the strings of S in ascending order
Sorted(S) ==
    IF S = {} THEN <<>>
    ELSE LET least == CHOOSE x \in S : \A y \in S \ {x} : StrLess(x, y)
         IN  <<least>> \o Sorted(S \ {least})

(***************************************************************************)
(* The filesystem as the kernel presents it.  f is a map from path to node.*)
(***************************************************************************)
\* the node at path p
At(f, p) == IF p \in DOMAIN f THEN f[p] ELSE "none"

\* f with the node at p replaced
Put(f, p, n) == [q \in DOMAIN f \cup {p} |-> IF q = p THEN n ELSE f[q]]

RECURSIVE NextSlash(_, _)
\* position of the first "/" of s at or after i (Len(s) + 1 when none)
NextSlash(s, i) ==
    IF i > Len(s) THEN Len(s) + 1
    ELSE IF SubSeq(s, i, i) = "/" THEN i
    ELSE NextSlash(s, i + 1)

RECURSIVE LowerNode(_, _, _, _)
RECURSIVE OvlWalk(_, _, _, _, _, _, _)
\* What the lower layer of an overlay holds at lower/q, with the overlays M
\* mounted.  The lower layer is the single filesystem mounted at lower:
\* where lower is the mount point of an overlay of M it is what that overlay
\* shows; where another host filesystem is mounted below it, the lower layer
\* holds the directory that is mounted on and nothing below it.
LowerNode(f, M, lower, q) ==
    LET hp == Join(lower, q)
        other == {mp \in HostMounts : mp # lower /\ Under(mp, lower) /\ Under(hp, mp)}
        stacked == {ov \in M : ov[3] = lower}
    IN  IF stacked # {}
        THEN LET ov == CHOOSE o \in stacked : TRUE
             IN  OvlWalk(f, M, ov[1], ov[2], q, 1, TRUE)
        ELSE IF other = {} THEN At(f, hp)
        ELSE IF hp \in other THEN "dir"
        ELSE "none"

\* The node that an overlay (upper, lower) shows at the relative path r,
\* resolved one component at a time from position i; vis: the lower layer
\* is still merged in at this depth.
OvlWalk(f, M, upper, lower, r, i, vis) ==
    LET j == NextSlash(r, i)
        q == SubSeq(r, 1, j - 1)
        u == At(f, Join(upper, q))
        l == IF vis THEN LowerNode(f, M, lower, q) ELSE "none"
        node == IF u = "wh" THEN "none" ELSE IF u # "none" THEN u ELSE l
    IN  IF j > Len(r) THEN node
        ELSE IF ~IsDir(node) THEN "none"
        ELSE OvlWalk(f, M, upper, lower, r, j + 1, vis /\ u # "opq" /\ IsDir(l))

\* the node of the merged view of overlay (upper, lower) at r ("." is its root)
OvlNode(f, M, upper, lower, r) ==
    IF r = "." THEN "dir" ELSE OvlWalk(f, M, upper, lower, r, 1, TRUE)

RECURSIVE LowerWalk(_, _, _, _, _, _, _)
\* What the lower layer contributes at r, given the upper layer above it:
\* "none" once an opaque directory or a non-directory lies on the way.
LowerWalk(f, M, upper, lower, r, i, vis) ==
    LET j == NextSlash(r, i)
        q == SubSeq(r, 1, j - 1)
        u == At(f, Join(upper, q))
        l == IF vis THEN LowerNode(f, M, lower, q) ELSE "none"
    IN  IF j > Len(r) THEN l
        ELSE LowerWalk(f, M, upper, lower, r, j + 1,
                       vis /\ u \in {"none", "dir"} /\ IsDir(l))

\* An overlay mount is the tuple the source records:
\* <<upper_dir, lower_dir, mount_point>>.
\* The mount of M that a path x of the host namespace resolves into: the one
\* with the longest mount point at or above x.
Covering(M, x) ==
    LET above == {ov \in M : Under(x, ov[3])}
    IN  CHOOSE ov \in above : \A o2 \in above : Len(o2[3]) <= Len(ov[3])

\* the node a process of the host namespace sees at x, with the overlays M mounted
ViewNode(f, M, x) ==
    IF \E ov \in M : Under(x, ov[3])
    THEN LET ov == Covering(M, x)
         IN  OvlNode(f, M, ov[1], ov[2], RelPath(x, ov[3]))
    ELSE At(f, x)

(***************************************************************************)
(* What a sandboxed command does to the filesystem.  The command runs in   *)
(* `unshare -m` and `chroot merged_dir`: its path p is the path            *)
(* merged_dir + p of the namespace it was started in, with the mounts M.   *)
(***************************************************************************)
upper_dir == Join(TempRoot, "upper")

work_dir == Join(TempRoot, "work")

merged_dir == Join(TempRoot, "merged")

\* The same envelope without the chroot: the command's paths are host paths.
Unconfined(p) == p

\* the path of the host namespace that the chroot-ed path p names
Chrooted(p) == IF p = "/" THEN merged_dir ELSE merged_dir \o p

\* the node the sandboxed command sees at p
SbNode(f, M, p) == ViewNode(f, M, Chrooted(p))

RECURSIVE CopyUp(_, _, _, _)
\* the kernel's copy-up of the directories above r into the upper layer
CopyUp(f, upper, r, i) ==
    LET j == NextSlash(r, i)
        q == Join(upper, SubSeq(r, 1, j - 1))
    IN  IF j > Len(r) THEN f
        ELSE CopyUp(IF At(f, q) = "none" THEN Put(f, q, "dir") ELSE f,
                    upper, r, j + 1)

\* f with every entry strictly below path d removed
Prune(f, d) ==
    [p \in DOMAIN f |-> IF p # d /\ Under(p, d) THEN "none" ELSE f[p]]

\* A write of x in the namespace with mounts M lands in the upper layer of
\* the overlay that covers x; where no overlay covers x it lands on the host.
KWrite(f, M, x, c) ==
    IF \E ov \in M : Under(x, ov[3])
    THEN LET ov == Covering(M, x)
             r == RelPath(x, ov[3])
         IN  Put(CopyUp(f, ov[1], r, 1), Join(ov[1], r), c)
    ELSE Put(f, x, c)

\* unlink / rm -r of x: the upper entries go, and a whiteout takes the place
\* of an entry that the lower layer holds
KRemove(f, M, x) ==
    IF \E ov \in M : Under(x, ov[3])
    THEN LET ov == Covering(M, x)
             r == RelPath(x, ov[3])
             l == LowerWalk(f, M, ov[1], ov[2], r, 1, TRUE)
             g == Prune(CopyUp(f, ov[1], r, 1), Join(ov[1], r))
         IN  Put(g, Join(ov[1], r), IF l # "none" THEN "wh" ELSE "none")
    ELSE Put(Prune(f, x), x, "none")

\* mkdir of x: a directory made where the lower layer holds an entry is opaque
KMkdir(f, M, x) ==
    IF \E ov \in M : Under(x, ov[3])
    THEN LET ov == Covering(M, x)
             r == RelPath(x, ov[3])
             l == LowerWalk(f, M, ov[1], ov[2], r, 1, TRUE)
         IN  Put(CopyUp(f, ov[1], r, 1), Join(ov[1], r),
                 IF l # "none" THEN "opq" ELSE "dir")
    ELSE Put(f, x, "dir")

(***************************************************************************)
(* Python's filesystem calls, made by the engine in the host namespace.    *)
(***************************************************************************)
RECURSIVE MakeDirs(_, _)
\* os.makedirs(p, exist_ok=True): [f, err]; err when p or a path above it
\* exists and is no directory
MakeDirs(f, p) ==
    IF IsDir(At(f, p)) THEN [f |-> f, err |-> FALSE]
    ELSE IF At(f, p) # "none" \/ p = "/" \/ p = "" THEN [f |-> f, err |-> TRUE]
    ELSE LET up == MakeDirs(f, Dirname(p))
         IN  IF up.err THEN up ELSE [f |-> Put(up.f, p, "dir"), err |-> FALSE]

\* os.listdir(d): the entries of directory d
ListDir(f, d) == {p \in DOMAIN f : p # d /\ Dirname(p) = d /\ f[p] # "none"}

\* a failing call is named by the call and its path argument
Fault(call, path) == call \o ":" \o path

(***************************************************************************)
(* OverlayFS.__init__.  The engine's state while it runs is the record     *)
(* [f, M, ovs, hidden, raised]: the filesystem, the host mount table's     *)
(* overlay mounts, self.overlay_mounts, self.hidden_paths and the          *)
(* exception that is propagating ("" for none).  F is the set of calls     *)
(* that fail.                                                              *)
(***************************************************************************)
\* the paths the engine conceals (DEFAULT_SENSITIVE_PATHS, extended by
\* the caller's sensitive_paths); the last one does not exist on the host
SensitivePaths == <<"/s", "/k", "/m/h", "/nx">>

\* the root overlay, as recorded
RootOverlay == <<upper_dir, "/", merged_dir>>

\* the three makedirs after mkdtemp
MakeScratch(f) ==
    [p \in DOMAIN f \cup {TempRoot, upper_dir, work_dir, merged_dir} |->
        IF p \in {TempRoot, upper_dir, work_dir, merged_dir} THEN "dir" ELSE f[p]]

\* the overlay put at the head of the list
TrackFirst(ovs, ov) == <<ov>> \o ovs

\* self.overlay_mounts.append((upper_dir, lower_dir, mount_point))
Track(ovs, ov) == Append(ovs, ov)

\* the overlay recorded although its mount command failed
BindOneTracked(st, mnt, F) ==
    LET target == Join(merged_dir, LStrip(mnt))
        safe_name == ReplaceSlash(mnt)
        sub_upper == Join(TempRoot, "sub_upper" \o safe_name)
        sub_work == Join(TempRoot, "sub_work" \o safe_name)
        f2 == MakeDirs(MakeDirs(st.f, sub_upper).f, sub_work).f
    IN  IF mnt = "" \/ mnt = "/" THEN st
        ELSE IF ~(IsDir(ViewNode(st.f, st.M, mnt))
                  /\ IsDir(ViewNode(st.f, st.M, target))) THEN st
        ELSE IF Fault("mount", target) \in F
             THEN [st EXCEPT !.f = f2,
                             !.ovs = Track(@, <<sub_upper, mnt, target>>)]
        ELSE [st EXCEPT !.f = f2,
                        !.M = @ \cup {<<sub_upper, mnt, target>>},
                        !.ovs = Track(@, <<sub_upper, mnt, target>>)]

\* one iteration of the loop of _bind_submounts, for mount target mnt
BindOne(st, mnt, F) ==
    LET target == Join(merged_dir, LStrip(mnt))
        safe_name == ReplaceSlash(mnt)
        sub_upper == Join(TempRoot, "sub_upper" \o safe_name)
        sub_work == Join(TempRoot, "sub_work" \o safe_name)
        f2 == MakeDirs(MakeDirs(st.f, sub_upper).f, sub_work).f
    IN  IF mnt = "" \/ mnt = "/" THEN st
        ELSE IF ~(IsDir(ViewNode(st.f, st.M, mnt))
                  /\ IsDir(ViewNode(st.f, st.M, target))) THEN st
        ELSE IF Fault("mount", target) \in F THEN [st EXCEPT !.f = f2]
        ELSE [st EXCEPT !.f = f2,
                        !.M = @ \cup {<<sub_upper, mnt, target>>},
                        !.ovs = Track(@, <<sub_upper, mnt, target>>)]

RECURSIVE BindLoop(_, _, _)
BindLoop(st, mount_points, F) ==
    IF mount_points = <<>> THEN st
    ELSE BindLoop(BindOne(st, Head(mount_points), F), Tail(mount_points), F)

\* _bind_submounts: findmnt lists every mount target of the host namespace,
\* the root overlay mounted a moment ago included
BindSubmounts(st, F) ==
    IF "findmnt:raise" \in F THEN [st EXCEPT !.raised = "FileNotFoundError"]
    ELSE IF "findmnt:rc" \in F THEN st
    ELSE BindLoop(st, Sorted(HostMounts \cup {ov[3] : ov \in st.M}), F)

\* hidden_paths.add reached whether or not os.mknod raised
MknodAlwaysRecorded(st, whiteout_path, abs_path, F) ==
    IF IsDir(At(st.f, whiteout_path)) THEN st
    ELSE IF Fault("mknod", whiteout_path) \in F
         THEN [st EXCEPT !.f = Put(@, whiteout_path, "none"),
                         !.hidden = @ \cup {abs_path}]
    ELSE [st EXCEPT !.f = Put(@, whiteout_path, "wh"),
                    !.hidden = @ \cup {abs_path}]

\* os.mknod(whiteout_path, S_IFCHR | 0o000, makedev(0, 0)) after removing
\* what is there, then hidden_paths.add
MknodWhiteout(st, whiteout_path, abs_path, F) ==
    IF IsDir(At(st.f, whiteout_path)) THEN st
    ELSE IF Fault("mknod", whiteout_path) \in F
         THEN [st EXCEPT !.f = Put(@, whiteout_path, "none")]
    ELSE [st EXCEPT !.f = Put(@, whiteout_path, "wh"),
                    !.hidden = @ \cup {abs_path}]

RECURSIVE WhiteoutsRecursive(_, _, _, _, _)
RECURSIVE WhiteoutEntries(_, _, _, _, _)
\* the loop of _create_whiteouts_recursive over os.listdir(abs_path)
WhiteoutEntries(st, entries, upper, lower, F) ==
    IF entries = <<>> THEN st
    ELSE LET entry_abs_path == Head(entries)
             whiteout_path == Join(upper, RelPath(entry_abs_path, lower))
             md == MakeDirs(st.f, Dirname(whiteout_path))
             one == IF IsDir(At(st.f, entry_abs_path))
                    THEN WhiteoutsRecursive(st, entry_abs_path, upper, lower, F)
                    ELSE MknodWhiteout([st EXCEPT !.f = md.f], whiteout_path,
                                       entry_abs_path, F)
         IN  IF ~IsDir(At(st.f, entry_abs_path)) /\ md.err THEN st
             ELSE WhiteoutEntries(one, Tail(entries), upper, lower, F)

\* _create_whiteouts_recursive
WhiteoutsRecursive(st, abs_path, upper, lower, F) ==
    WhiteoutEntries(st, Sorted(ListDir(st.f, abs_path)), upper, lower, F)

\* _create_opaque_dir
CreateOpaqueDir(st, whiteout_path, abs_path, upper, lower, F) ==
    LET md == MakeDirs(st.f, whiteout_path)
    IN  IF md.err THEN st
        ELSE IF Fault("setfattr", whiteout_path) \in F
             THEN WhiteoutsRecursive([st EXCEPT !.f = md.f], abs_path, upper, lower, F)
        ELSE [st EXCEPT !.f = Put(md.f, whiteout_path, "opq"),
                        !.hidden = @ \cup {abs_path}]

\* _create_whiteout_in_overlay
CreateWhiteoutInOverlay(st, abs_path, upper, lower, F) ==
    LET rel_path == RelPath(abs_path, lower)
        whiteout_path == Join(upper, rel_path)
        parent_dir == Dirname(whiteout_path)
        md == MakeDirs(st.f, parent_dir)
    IN  IF StartsWith(rel_path, "..") THEN st
        ELSE IF At(st.f, abs_path) = "none" THEN st
        ELSE IF md.err \/ Fault("makedirs", parent_dir) \in F
             THEN [st EXCEPT !.raised = "OSError"]
        ELSE IF IsDir(At(st.f, abs_path))
             THEN CreateOpaqueDir([st EXCEPT !.f = md.f], whiteout_path, abs_path,
                                  upper, lower, F)
        ELSE MknodWhiteout([st EXCEPT !.f = md.f], whiteout_path, abs_path, F)

\* glob.glob(pattern) for a pattern without wildcard, and the fall-back to
\* the literal pattern
Expanded(f, pattern) ==
    LET expanded_paths == IF At(f, pattern) # "none" THEN <<pattern>> ELSE <<>>
    IN  IF expanded_paths = <<>> THEN <<pattern>> ELSE expanded_paths

\* the test of _hide_sensitive_paths that abs_path belongs to the overlay
BelongsTo(abs_path, lower_dir) ==
    abs_path = lower_dir \/ StartsWith(abs_path, RStrip(lower_dir) \o "/")

RECURSIVE HidePatterns(_, _, _, _)
\* the inner loops of _hide_sensitive_paths, for one overlay
HidePatterns(st, patterns, ov, F) ==
    IF patterns = <<>> \/ st.raised # "" THEN st
    ELSE LET abs_path == Head(Expanded(st.f, Head(patterns)))
             one == IF BelongsTo(abs_path, ov[2])
                    THEN CreateWhiteoutInOverlay(st, abs_path, ov[1], ov[2], F)
                    ELSE st
         IN  HidePatterns(one, Tail(patterns), ov, F)

RECURSIVE HideLoop(_, _, _, _)
HideLoop(st, ovs, patterns, F) ==
    IF ovs = <<>> \/ st.raised # "" THEN st
    ELSE HideLoop(HidePatterns(st, patterns, Head(ovs), F), Tail(ovs), patterns, F)

\* _hide_sensitive_paths
HideSensitivePaths(st, patterns, F) == HideLoop(st, st.ovs, patterns, F)

\* s has sub as a substring (`sub in s`)
Contains(s, sub) ==
    \E i \in 1..(Len(s) - Len(sub) + 1) : SubSeq(s, i, i + Len(sub) - 1) = sub

RECURSIVE StrOfList(_)
\* str(cmd) of a list of strings, without the brackets
StrOfList(cmd) ==
    IF cmd = <<>> THEN ""
    ELSE IF Len(cmd) = 1 THEN "'" \o cmd[1] \o "'"
    ELSE "'" \o cmd[1] \o "', " \o StrOfList(Tail(cmd))

\* the command of the root overlay mount
mount_cmd ==
    <<"mount", "-t", "overlay", "overlay", "-o",
      "lowerdir=/,upperdir=" \o upper_dir \o ",workdir=" \o work_dir, merged_dir>>

\* How the root mount fails under F: "EPERM" (the caller lacks the
\* privilege), "ENODEV" (the kernel has no overlayfs), "" (it does not fail)
RootMountErrno(F) ==
    IF Fault("mount", merged_dir) \in F THEN "EPERM"
    ELSE IF Fault("mount-enodev", merged_dir) \in F THEN "ENODEV"
    ELSE ""

\* `except subprocess.CalledProcessError as e`: the exception that reaches
\* the caller when the root mount exits non-zero for the reason errno
MountException(errno) ==
    IF Contains(StrOfList(mount_cmd), "mount") THEN "PermissionError"
    ELSE "CalledProcessError"

\* __init__ from mkdtemp on, with the overlays M already in the host mount
\* table: the state it leaves, st.raised naming the exception that reaches
\* the caller
InitFrom(f, M, F) ==
    LET st0 == [f |-> MakeScratch(f), M |-> M, ovs |-> <<>>, hidden |-> {},
                raised |-> "", mounted |-> FALSE]
        st1 == [st0 EXCEPT !.M = M \cup {RootOverlay},
                           !.ovs = Track(<<>>, RootOverlay),
                           !.mounted = TRUE]
        st2 == BindSubmounts(st1, F)
    IN  IF RootMountErrno(F) # ""
        THEN [st0 EXCEPT !.raised = MountException(RootMountErrno(F))]
        ELSE IF st2.raised # "" THEN st2
        ELSE HideSensitivePaths(st2, SensitivePaths, F)

(***************************************************************************)
(* cleanup: _apply_overlay_changes, the unmount loop and the removal of    *)
(* temp_root.                                                              *)
(***************************************************************************)
\* the non-directory entries that os.walk(upper) yields
WalkFiles(f, upper) ==
    {w \in DOMAIN f : w # upper /\ Under(w, upper) /\ f[w] # "none" /\ ~IsDir(f[w])}

\* stat.S_ISCHR(os.stat(src_file).st_mode)
IsChr(n) == n \in {"wh", "chr"}

\* os.remove(target_file) under `if os.path.exists(target_file)`: a directory
\* makes os.remove raise IsADirectoryError, which the except clause drops
RemoveTarget(f, target_file) ==
    IF At(f, target_file) = "none" \/ IsDir(At(f, target_file)) THEN f
    ELSE Put(f, target_file, "none")

RECURSIVE Deletions(_, _, _, _)
\* the first walk of _apply_overlay_changes, over the entries ws;
\* r = [f, err, log], log listing the calls made on the host as
\* <<call, upper_dir, path>>
Deletions(r, ws, upper, lower) ==
    IF ws = <<>> THEN r
    ELSE LET src_file == Head(ws)
             target_file == Join(lower, RelPath(src_file, upper))
         IN  Deletions(IF IsChr(At(r.f, src_file)) /\ At(r.f, target_file) # "none"
                       THEN [r EXCEPT !.f = RemoveTarget(@, target_file),
                                      !.log = Append(@, <<"remove", upper, target_file>>)]
                       ELSE r,
                       Tail(ws), upper, lower)

\* shutil.copy2(src_file, dst_file): into dst_file when that is a directory;
\* an OSError (no directory to copy into) is dropped by the except clause
Copy2(f, src_file, dst_file) ==
    LET dst == IF IsDir(At(f, dst_file)) THEN Join(dst_file, Basename(src_file))
               ELSE dst_file
    IN  IF ~IsDir(At(f, Dirname(dst))) \/ IsDir(At(f, dst)) THEN f
        ELSE Put(f, dst, At(f, src_file))

RECURSIVE WalkDirs(_, _, _, _)
RECURSIVE WalkCopy(_, _, _, _)
RECURSIVE Additions(_, _, _, _)
\* `for dir_name in dirs: os.makedirs(target_path, exist_ok=True)`; err when
\* makedirs raised (it is not inside a try)
WalkDirs(r, dirs, upper, lower) ==
    IF dirs = <<>> \/ r.err THEN r
    ELSE LET target_path == Join(lower, RelPath(Head(dirs), upper))
             md == MakeDirs(r.f, target_path)
         IN  WalkDirs([f |-> md.f, err |-> md.err,
                       log |-> Append(r.log, <<"makedirs", upper, target_path>>)],
                      Tail(dirs), upper, lower)

\* `for file_name in files:` of the second walk
WalkCopy(r, files, upper, lower) ==
    IF files = <<>> THEN r
    ELSE LET src_file == Head(files)
             dst_file == Join(lower, RelPath(src_file, upper))
         IN  WalkCopy(IF IsChr(At(r.f, src_file)) THEN r
                      ELSE [r EXCEPT !.f = Copy2(@, src_file, dst_file),
                                     !.log = Append(@, <<"copy2", upper, dst_file>>)],
                      Tail(files), upper, lower)

\* the second walk of _apply_overlay_changes: os.walk top-down over the
\* directories todo
Additions(r, todo, upper, lower) ==
    IF todo = <<>> \/ r.err THEN r
    ELSE LET root == Head(todo)
             dirs == Sorted({d \in ListDir(r.f, root) : IsDir(r.f[d])})
             files == Sorted({w \in ListDir(r.f, root) : ~IsDir(r.f[w])})
             r1 == WalkDirs(r, dirs, upper, lower)
             r2 == IF r1.err THEN r1 ELSE WalkCopy(r1, files, upper, lower)
         IN  Additions(r2, dirs \o Tail(todo), upper, lower)

\* the two walks the other way round
AdditionsFirst(r, upper, lower) ==
    LET added == Additions(r, <<upper>>, upper, lower)
    IN  IF added.err THEN added
        ELSE Deletions(added, Sorted(WalkFiles(added.f, upper)), upper, lower)

\* _apply_overlay_changes(upper_dir, lower_dir)
ApplyOverlayChanges(r, upper, lower) ==
    Additions(Deletions(r, Sorted(WalkFiles(r.f, upper)), upper, lower),
              <<upper>>, upper, lower)

RECURSIVE ApplyAll(_, _)
\* `for upper_dir, lower_dir, _ in self.overlay_mounts`
ApplyAll(r, ovs) ==
    IF ovs = <<>> \/ r.err THEN r
    ELSE ApplyAll(ApplyOverlayChanges(r, Head(ovs)[1], Head(ovs)[2]), Tail(ovs))

\* the same block with the keep_changes test lost
ApplyAlways(f, keep_changes, is_mounted, ovs) ==
    IF is_mounted THEN ApplyAll([f |-> f, err |-> FALSE, log |-> <<>>], ovs)
    ELSE [f |-> f, err |-> FALSE, log |-> <<>>]

\* the first block of cleanup: the changes are applied iff keep_changes and
\* self.mounted
ApplyChanges(f, keep_changes, is_mounted, ovs) ==
    IF keep_changes /\ is_mounted
    THEN ApplyAll([f |-> f, err |-> FALSE, log |-> <<>>], ovs)
    ELSE [f |-> f, err |-> FALSE, log |-> <<>>]

\* The kind of the change an upper-layer entry records: a whiteout is a
\* deletion, a regular file an addition when the lower path is absent and a
\* modification when it is present.
ChangeKind(f, src_file, lower_path) ==
    IF IsChr(At(f, src_file)) THEN "Deleted"
    ELSE IF At(f, lower_path) = "none" THEN "Added"
    ELSE "Modified"

\* the ChangedFile records (path, kind) derived from one upper layer
ChangedIn(f, upper, lower) ==
    {[path |-> Join(lower, RelPath(w, upper)),
      kind |-> ChangeKind(f, w, Join(lower, RelPath(w, upper)))] :
        w \in WalkFiles(f, upper)}

\* get_changed_files(): the records of every overlay of the session
get_changed_files(f, ovs) ==
    UNION {ChangedIn(f, ovs[i][1], ovs[i][2]) : i \in DOMAIN ovs}

\* the list walked as it was built
InListOrder(q) == q

\* reversed(self.overlay_mounts)
RECURSIVE Reversed(_)
Reversed(q) == IF q = <<>> THEN <<>> ELSE Reversed(Tail(q)) \o <<Head(q)>>

\* umount mount_point with no forced retry: does the mount go?
UnmountedNoForce(mount_point, F) == Fault("umount", mount_point) \notin F

\* umount mount_point, then umount -f mount_point: does the mount go?
Unmounted(mount_point, F) ==
    ~(Fault("umount", mount_point) \in F /\ Fault("umount-f", mount_point) \in F)

\* the umount commands one overlay makes cleanup run
UmountCalls(mount_point, F) ==
    IF Fault("umount", mount_point) \in F
    THEN <<Fault("umount", mount_point), Fault("umount-f", mount_point)>>
    ELSE <<Fault("umount", mount_point)>>

RECURSIVE UmountLoop(_, _, _)
\* the unmount loop: u = [M, calls], the mount table and the calls made
UmountLoop(u, ovs, F) ==
    IF ovs = <<>> THEN u
    ELSE UmountLoop([M |-> IF Unmounted(Head(ovs)[3], F) THEN u.M \ {Head(ovs)}
                           ELSE u.M,
                     calls |-> u.calls \o UmountCalls(Head(ovs)[3], F)],
                    Tail(ovs), F)

\* shutil.rmtree(temp_root): raises OSError when a mount is left below
\* temp_root (EBUSY) or a permission stops it; what it could not remove stays
RmTree(f, M, fault, F) ==
    IF (\E ov \in M : Under(ov[3], TempRoot)) \/ fault \in F
    THEN [f |-> f, err |-> TRUE]
    ELSE [f |-> [p \in DOMAIN f |-> IF Under(p, TempRoot) THEN "none" ELSE f[p]],
          err |-> FALSE]

(***************************************************************************)
(* run_command: the command line, its effect, and the parsing of stdout.   *)
(***************************************************************************)
RECURSIVE SplitSlash(_, _, _)
\* s.split("/") from position i, cur the component being read
SplitSlash(s, i, cur) ==
    IF i > Len(s) THEN <<cur>>
    ELSE IF SubSeq(s, i, i) = "/" THEN <<cur>> \o SplitSlash(s, i + 1, "")
    ELSE SplitSlash(s, i + 1, cur \o SubSeq(s, i, i))

RECURSIVE NormComps(_, _, _)
\* the component loop of posixpath.normpath
NormComps(comps, new, rooted) ==
    IF comps = <<>> THEN new
    ELSE LET c == Head(comps)
         IN  IF c = "" \/ c = "." THEN NormComps(Tail(comps), new, rooted)
             ELSE IF c # ".." \/ (~rooted /\ new = <<>>)
                     \/ (new # <<>> /\ new[Len(new)] = "..")
                  THEN NormComps(Tail(comps), Append(new, c), rooted)
             ELSE IF new # <<>>
                  THEN NormComps(Tail(comps), SubSeq(new, 1, Len(new) - 1), rooted)
             ELSE NormComps(Tail(comps), new, rooted)

RECURSIVE JoinSlash(_)
\* "/".join(comps)
JoinSlash(comps) ==
    IF comps = <<>> THEN ""
    ELSE IF Len(comps) = 1 THEN comps[1]
    ELSE comps[1] \o "/" \o JoinSlash(Tail(comps))

\* os.path.normpath(path)
NormPath(path) ==
    LET rooted == StartsWith(path, "/")
        lead == IF StartsWith(path, "//") /\ ~StartsWith(path, "///") THEN "//"
                ELSE IF rooted THEN "/" ELSE ""
        out == lead \o JoinSlash(NormComps(SplitSlash(path, 1, ""), <<>>, rooted))
    IN  IF path = "" \/ out = "" THEN "." ELSE out

\* The commands of the model, on absolute paths:
\*   write p c    sh -c "echo c > p"
\*   rm p         rm -r p
\*   mkdir p      sh -c "rm -rf p; mkdir p"
\*   stat p       stat p
\*   cd p         cd p
\*   umount_stat  sh -c "umount m; stat p"
\*   mknod p      sh -c "rm -f p; mknod p c 1 3"
\*   echo l       echo l
\*   cd_fail p    sh -c "cd p && false"
WriteTargets == {"/b/a", "/b/f", "/b/d", "/m/g", "/s"}

RemoveTargets == {"/b/f", "/b/d"}

MkdirTargets == {"/t"}

StatTargets == {"/s", "/k", "/m/h"}

CdTargets == {"/", "/b/d", "/bx"}

Commands ==
    {[op |-> "write", path |-> p, arg |-> "new"] : p \in WriteTargets}
    \cup {[op |-> "rm", path |-> p, arg |-> ""] : p \in RemoveTargets}
    \cup {[op |-> "mkdir", path |-> p, arg |-> ""] : p \in MkdirTargets}
    \cup {[op |-> "stat", path |-> p, arg |-> ""] : p \in StatTargets}
    \cup {[op |-> "cd", path |-> p, arg |-> ""] : p \in CdTargets}
    \cup {[op |-> "umount_stat", path |-> "/m/h", arg |-> "/m"]}

\* The mounts of the command's namespace after its `umount m` (the
\* namespace is a private copy of M): a mount that has nothing mounted
\* below it and is not the chroot's root goes.
NsUmount(M, m) ==
    {ov \in M : ~(ov[3] = Chrooted(m) /\ m # "/"
                  /\ ~\E o2 \in M : o2 # ov /\ Under(o2[3], ov[3]))}

\* The command proper, run in the chroot with the mounts M:
\* [f, rc, pwd, out] = the filesystem after it, its exit status, the
\* shell's directory after it and the lines it printed.
Execute(f, M, cwd, cmd) ==
    LET x == Chrooted(cmd.path)
        node == ViewNode(f, M, x)
        parent == ViewNode(f, M, Chrooted(Dirname(cmd.path)))
        ok(g) == [f |-> g, rc |-> 0, pwd |-> cwd, out |-> <<>>]
        fail == [f |-> f, rc |-> 1, pwd |-> cwd, out |-> <<>>]
    IN  CASE cmd.op = "write" ->
               IF IsDir(parent) /\ ~IsDir(node) THEN ok(KWrite(f, M, x, cmd.arg))
               ELSE fail
          [] cmd.op = "rm" ->
               IF node # "none" THEN ok(KRemove(f, M, x)) ELSE fail
          [] cmd.op = "mkdir" ->
               IF IsDir(parent) THEN ok(KMkdir(KRemove(f, M, x), M, x)) ELSE fail
          [] cmd.op = "stat" ->
               IF node # "none" THEN ok(f) ELSE fail
          [] cmd.op = "cd" ->
               IF IsDir(node) THEN [ok(f) EXCEPT !.pwd = cmd.path] ELSE fail
          [] cmd.op = "mknod" ->
               IF IsDir(parent) /\ ~IsDir(node) THEN ok(KWrite(f, M, x, "chr"))
               ELSE fail
          [] cmd.op = "echo" -> [ok(f) EXCEPT !.out = <<cmd.arg>>]
          [] cmd.op = "cd_fail" ->
               IF IsDir(node) THEN [fail EXCEPT !.pwd = cmd.path] ELSE fail
          [] OTHER ->
               IF ViewNode(f, NsUmount(M, cmd.arg), x) # "none" THEN ok(f) ELSE fail

\* bash -c "cd 'current_dir' && command && echo FINAL_PWD:$(pwd)"
Shell(f, M, cur, cmd) ==
    LET e == Execute(f, M, cur, cmd)
    IN  IF ~IsDir(SbNode(f, M, cur))
        THEN [f |-> f, rc |-> 1, pwd |-> cur, out |-> <<>>]
        ELSE IF e.rc # 0 THEN e
        ELSE [e EXCEPT !.out = Append(@, "FINAL_PWD:" \o e.pwd)]

RECURSIVE FirstSentinel(_, _)
\* index of the first line that starts with FINAL_PWD: (0 when none)
FirstSentinel(lines, i) ==
    IF i > Len(lines) THEN 0
    ELSE IF StartsWith(lines[i], "FINAL_PWD:") THEN i
    ELSE FirstSentinel(lines, i + 1)

\* the test that lets a reported directory become current_dir
Accepts(final_pwd, base) == StartsWith(final_pwd, base)

\* the loop over stdout_lines: [current_dir, stdout]
ParseOutput(lines, cur, base) ==
    LET i == FirstSentinel(lines, 1)
        final_pwd == NormPath(SubSeq(lines[i], 11, Len(lines[i])))
    IN  IF i = 0 THEN [current_dir |-> cur, stdout |-> lines]
        ELSE [current_dir |-> IF Accepts(final_pwd, base) THEN final_pwd ELSE cur,
              stdout |-> SubSeq(lines, 1, i - 1) \o SubSeq(lines, i + 1, Len(lines))]

(***************************************************************************)
(* The state: the filesystem, the host mount table, and one session.       *)
(***************************************************************************)
VARIABLES
    fs,             \* the filesystem: path -> node
    mountTable,     \* the overlay mounts in the host mount table
    phase,          \* "new", "open" (the constructor returned), "failed"
                    \* (the constructor raised), "closed" (cleanup was called)
    base_dir,       \* self.base_dir
    current_dir,    \* self.current_dir
    mounted,        \* self.mounted
    hidden_paths,   \* self.hidden_paths
    overlay_mounts, \* self.overlay_mounts
    raised,         \* the exception the last call raised ("" for none)
    result,         \* what the last run_command returned
    warned,         \* the warning of _fix_permissions_and_retry_cleanup was printed
    nruns,          \* run_command calls so far
    ncloses,        \* cleanup calls so far
    nfaults,        \* calls that failed so far
    keptChanges,    \* keep_changes of the cleanup call that found the session mounted
    umountCalls,    \* history: the umount commands of the last cleanup call
    failed,         \* history: the calls that failed so far
    touched,        \* history: host paths a sandboxed command wrote or deleted
    sbView,         \* history: what the sandbox showed at each host path when
                    \* the last command ended
    pc,             \* start_shell: "start", "prompt" (the loop of the
                    \* Prompter), "keep" (the keep-changes prompt), "failing"
                    \* (its except clause), "exited"
    exit_code,      \* the exit status of the start_shell process ("" while
                    \* it runs)
    printed,        \* the last message the shell printed
    peer,           \* the fields of a second OverlayFS object of the same
                    \* host, while a step of the first one runs (and the
                    \* other way round)
    command,        \* the argv list of the last run_command whose command
                    \* line was followed into bash
    executed        \* the simple commands the chrooted bash made of it, each
                    \* a list of words

vars ==
    <<fs, mountTable, phase, base_dir, current_dir, mounted, hidden_paths,
      overlay_mounts, raised, result, warned, nruns, ncloses, nfaults,
      keptChanges, umountCalls, failed, touched, sbView, pc, exit_code, printed,
      temp_root, peer, command, executed>>

\* the state of the shell around the session
shellVars == <<pc, exit_code, printed>>

\* which session is running, and the one that is not
switchVars == <<temp_root, peer>>

\* a command line followed into bash
argvVars == <<command, executed>>

\* the paths a sandboxed command can name
SbPaths == HostPaths \cup WriteTargets

NoResult == [returncode |-> 0, stdout |-> <<>>, stat |-> ""]

\* the fields of an OverlayFS object before its constructor ran, root being
\* the directory mkdtemp will return to it
NewSession(root) ==
    [temp_root |-> root, phase |-> "new", base_dir |-> "", current_dir |-> "",
     mounted |-> FALSE, hidden_paths |-> {}, overlay_mounts |-> <<>>,
     raised |-> "", result |-> NoResult, warned |-> FALSE, nruns |-> 0,
     ncloses |-> 0, nfaults |-> 0, keptChanges |-> "none", umountCalls |-> <<>>,
     failed |-> {}, touched |-> {}, sbView |-> [p \in SbPaths |-> "none"]]

Init ==
    /\ fs = HostInit
    /\ mountTable = {}
    /\ phase = "new"
    /\ base_dir = ""
    /\ current_dir = ""
    /\ mounted = FALSE
    /\ hidden_paths = {}
    /\ overlay_mounts = <<>>
    /\ raised = ""
    /\ result = NoResult
    /\ warned = FALSE
    /\ nruns = 0
    /\ ncloses = 0
    /\ nfaults = 0
    /\ keptChanges = "none"
    /\ umountCalls = <<>>
    /\ failed = {}
    /\ touched = {}
    /\ sbView = [p \in SbPaths |-> "none"]
    /\ pc = "start"
    /\ exit_code = ""
    /\ printed = ""
    /\ temp_root = "/T"
    /\ peer = NewSession("/U")
    /\ command = <<>>
    /\ executed = <<>>

\* the directories open is called on: the second does not exist
BaseDirs == {"/b", "/nx"}

OpenFaults ==
    {Fault("mount", merged_dir), Fault("mount-enodev", merged_dir),
     Fault("mount", Join(merged_dir, "m")),
     Fault("mount", Join(merged_dir, "T/merged")), "findmnt:rc", "findmnt:raise",
     Fault("mknod", Join(upper_dir, "s")), Fault("mknod", Join(upper_dir, "m/h")),
     Fault("mknod", Join(upper_dir, "k/x")),
     Fault("mknod", Join(TempRoot, "sub_upper_m/h")),
     Fault("setfattr", Join(upper_dir, "k")),
     Fault("makedirs", Join(upper_dir, "m"))}

\* the test passed without looking at the filesystem
BaseAssumed(f, base) == TRUE

\* os.path.exists(base_dir)
BaseExists(f, base) == At(f, base) # "none"

\* OverlayFS(base_dir=base), with the calls of F failing
Open(base, F) ==
    /\ phase = "new"
    /\ IF ~BaseExists(fs, base)
       THEN /\ phase' = "failed"
            /\ raised' = "FileNotFoundError"
            /\ UNCHANGED <<fs, mountTable, base_dir, current_dir, mounted,
                           hidden_paths, overlay_mounts, sbView>>
       ELSE \E st \in {InitFrom(fs, mountTable, F)} :
                /\ fs' = st.f
                /\ mountTable' = st.M
                /\ base_dir' = base
                /\ current_dir' = base
                /\ mounted' = st.mounted
                /\ hidden_paths' = st.hidden
                /\ overlay_mounts' = st.ovs
                /\ raised' = st.raised
                /\ phase' = IF st.raised = "" THEN "open" ELSE "failed"
                /\ sbView' = [p \in SbPaths |-> SbNode(st.f, st.M, p)]
    /\ nfaults' = Cardinality(F)
    /\ failed' = F
    /\ UNCHANGED <<result, warned, nruns, ncloses, keptChanges, umountCalls,
                   touched>>

\* the host paths a command that succeeded wrote or deleted
Touches(f, M, cmd) ==
    CASE cmd.op \in {"write", "mknod"} -> {cmd.path}
      [] cmd.op \in {"rm", "mkdir"} ->
           {cmd.path} \cup
           {q \in SbPaths : Under(q, cmd.path) /\ SbNode(f, M, q) # "none"}
      [] OTHER -> {}

\* run_command going on whether or not the session is mounted
NeverRefused(is_mounted) == FALSE

\* `if not self.mounted: raise RuntimeError(...)`
NotMounted(is_mounted) == ~is_mounted

\* the subprocess run with check=True
ExitStatusChecked == TRUE

\* subprocess.run(["unshare", ...]) is called without check: a non-zero
\* exit status raises nothing
CheckExitStatus == FALSE

\* get_pwd(), on a session whose current_dir is cur
get_pwd(cur) == cur

\* run_command(cmd)
Run(cmd) ==
    /\ phase \in {"open", "closed"}
    /\ nruns < MaxRuns
    /\ nruns' = nruns + 1
    /\ IF NotMounted(mounted)
       THEN /\ raised' = "RuntimeError"
            /\ UNCHANGED <<fs, current_dir, result, touched, sbView>>
       ELSE \E sh \in {Shell(fs, mountTable, current_dir, cmd)} :
            \E parsed \in {ParseOutput(sh.out, current_dir, base_dir)} :
                /\ fs' = sh.f
                /\ current_dir' = parsed.current_dir
                /\ result' = [returncode |-> sh.rc, stdout |-> parsed.stdout,
                              stat |-> IF cmd.op \in {"stat", "umount_stat"}
                                       THEN cmd.path ELSE ""]
                /\ raised' = IF CheckExitStatus /\ sh.rc # 0
                             THEN "CalledProcessError" ELSE ""
                /\ touched' = IF sh.rc = 0
                              THEN touched \cup Touches(fs, mountTable, cmd)
                              ELSE touched
                /\ sbView' = [p \in SbPaths |-> SbNode(sh.f, mountTable, p)]
    /\ UNCHANGED <<mountTable, phase, base_dir, mounted, hidden_paths,
                   overlay_mounts, warned, ncloses, nfaults, keptChanges,
                   umountCalls, failed>>

\* The calls of one cleanup that can fail: the umount of each recorded
\* overlay, its forced retry, rmtree and its retry.
CloseFaults(is_mounted, ovs) ==
    {Fault(c, ovs[i][3]) : c \in {"umount", "umount-f"},
                           i \in IF is_mounted THEN DOMAIN ovs ELSE {}}
    \cup {"rmtree", "rmtree-retry"}

\* a retry fails only after the first attempt failed
Retries(F) ==
    /\ \A t \in {merged_dir, Join(merged_dir, "m"), Join(merged_dir, "T/merged")} :
           Fault("umount-f", t) \in F => Fault("umount", t) \in F
    /\ "rmtree-retry" \in F => "rmtree" \in F

\* the unmount loop leaving the session's fields as they were
AfterUnmountKept(is_mounted, ovs) == [mounted |-> is_mounted, overlay_mounts |-> ovs]

\* self.mounted and self.overlay_mounts after the unmount loop
AfterUnmount(is_mounted, ovs) == [mounted |-> FALSE, overlay_mounts |-> <<>>]

\* the rest of cleanup left out when the first block raised
SkippedOnError(err) == ~err

\* `try: ... finally:`: the unmount loop and the removal of temp_root run
\* whether or not the first block raised (err)
Finally(err) == TRUE

\* cleanup(keep_changes), with the calls of F failing
Close(keep_changes, F) ==
    /\ phase \in {"open", "closed"}
    /\ ncloses < MaxCloses
    /\ ncloses' = ncloses + 1
    /\ nfaults' = nfaults + Cardinality(F)
    /\ failed' = failed \cup F
    /\ phase' = "closed"
    /\ \E applied \in {ApplyChanges(fs, keep_changes, mounted, overlay_mounts)} :
       \E um \in {IF mounted /\ Finally(applied.err)
                  THEN UmountLoop([M |-> mountTable, calls |-> <<>>],
                                  Reversed(overlay_mounts), F)
                  ELSE [M |-> mountTable, calls |-> <<>>]} :
       \E first \in {RmTree(applied.f, um.M, "rmtree", F)} :
       \E retry \in {RmTree(applied.f, um.M, "rmtree-retry", F)} :
       LET after == IF mounted /\ Finally(applied.err)
                    THEN AfterUnmount(mounted, overlay_mounts)
                    ELSE [mounted |-> mounted, overlay_mounts |-> overlay_mounts]
           there == Finally(applied.err) /\ At(applied.f, TempRoot) # "none"
       IN  /\ raised' = IF applied.err THEN "OSError" ELSE ""
           /\ mountTable' = um.M
           /\ umountCalls' = um.calls
           /\ mounted' = after.mounted
           /\ overlay_mounts' = after.overlay_mounts
           /\ fs' = IF ~there THEN applied.f
                    ELSE IF ~first.err THEN first.f
                    ELSE retry.f
           /\ warned' = (warned \/ (there /\ first.err /\ retry.err))
           /\ keptChanges' = IF mounted
                             THEN (IF keep_changes THEN "keep" ELSE "discard")
                             ELSE keptChanges
    /\ UNCHANGED <<base_dir, current_dir, hidden_paths, result, nruns, touched,
                   sbView>>

\* The engine driven directly: any open, then runs and closes in any order.
Next ==
    \/ /\ \E base \in BaseDirs, F \in SUBSET OpenFaults :
              Cardinality(F) <= MaxOpenFaults /\ Open(base, F)
       /\ UNCHANGED <<shellVars, switchVars, argvVars>>
    \/ /\ \E cmd \in Commands : Run(cmd)
       /\ UNCHANGED <<shellVars, switchVars, argvVars>>
    \/ /\ \E keep_changes \in BOOLEAN,
              F \in SUBSET CloseFaults(mounted, overlay_mounts) :
              Cardinality(F) <= MaxFaults - nfaults /\ Retries(F)
              /\ Close(keep_changes, F)
       /\ UNCHANGED <<shellVars, switchVars, argvVars>>

Spec == Init /\ [][Next]_vars

(***************************************************************************)
(* The shell around the engine: start_shell.main and the Prompter.         *)
(***************************************************************************)
\* plan.get(key, default)
Get(plan, key, default) == IF key \in DOMAIN plan THEN plan[key] ELSE default

\* `command` of a plan that names no command (an empty list)
EmptyCommand == [op |-> "", path |-> "", arg |-> ""]

\* the commands the translator's plans name
PlanCommands ==
    {[op |-> "write", path |-> "/b/a", arg |-> "new"],
     [op |-> "rm", path |-> "/b/f", arg |-> ""]}

\* What translator.to_plan returns (the translator is outside the engine):
\* plans with and without each optional key, and a call that raises.
Plans ==
    {[needs_clarification |-> nc, question |-> "which file?", command |-> c] :
        nc \in BOOLEAN, c \in PlanCommands \cup {EmptyCommand}}
    \cup {[needs_clarification |-> TRUE, command |-> c] : c \in PlanCommands}
    \cup {[command |-> c] : c \in PlanCommands}
    \cup {[question |-> "which file?"], [raises |-> TRUE]}

\* the same choice made with the command looked at first
PlanStepCommandFirst(plan) ==
    IF Get(plan, "raises", FALSE) THEN "error"
    ELSE IF Get(plan, "command", EmptyCommand) # EmptyCommand THEN "run"
    ELSE IF Get(plan, "needs_clarification", FALSE) THEN "ask"
    ELSE "none"

\* What _handle_ai_prompt does with a plan: "error" (to_plan raised), "ask"
\* (print the question and return), "run" (run_command(command)), "none"
PlanStep(plan) ==
    IF Get(plan, "raises", FALSE) THEN "error"
    ELSE IF Get(plan, "needs_clarification", FALSE) THEN "ask"
    ELSE IF Get(plan, "command", EmptyCommand) # EmptyCommand THEN "run"
    ELSE "none"

\* the line _handle_ai_prompt prints for a clarification
Clarification(plan) ==
    "Clarification needed: "
        \o Get(plan, "question", "Additional clarification needed")

\* the engine's state, which a step of the shell that calls nothing leaves
engineVars ==
    <<fs, mountTable, phase, base_dir, current_dir, mounted, hidden_paths,
      overlay_mounts, raised, result, warned, nruns, ncloses, nfaults,
      keptChanges, umountCalls, failed, touched, sbView>>

\* The exit status of the process when main ends with the exception exc
\* ("" for none): main catches PermissionError and returns; any other
\* exception leaves the interpreter with status 1.
ExitStatus(exc) == IF exc \in {"", "PermissionError"} THEN "0" ELSE "1"

\* the base_dir arguments of the command line: "" stands for none given
Arguments == BaseDirs \cup {""}

\* main() up to the first prompt: OverlayFS(base_dir=sys.argv[1]), Prompter
Main(base, F) ==
    /\ pc = "start"
    /\ IF base = ""
       THEN /\ pc' = "exited"
            /\ exit_code' = ExitStatus("IndexError")
            /\ UNCHANGED <<engineVars, printed>>
       ELSE /\ Open(base, F)
            /\ pc' = IF raised' = "" THEN "prompt" ELSE "exited"
            /\ exit_code' = IF raised' = "" THEN "" ELSE ExitStatus(raised')
            /\ printed' = IF raised' = "PermissionError"
                          THEN "You may need to run this script with sudo privileges."
                          ELSE IF raised' = "" THEN "banner" ELSE printed
    /\ UNCHANGED <<switchVars, argvVars>>

\* a line typed at the prompt that does not start with "/": run_command on
\* its words; an exception is printed and the loop goes on
PromptCommand(cmd) ==
    /\ pc = "prompt"
    /\ Run(cmd)
    /\ printed' = IF raised' # "" THEN "Error: " \o raised' ELSE "output"
    /\ UNCHANGED <<pc, exit_code, switchVars, argvVars>>

\* a line that starts with "/": _handle_ai_prompt with the plan the
\* translator returns
HandleAiPrompt(plan) ==
    /\ pc = "prompt"
    /\ CASE PlanStep(plan) = "error" ->
              /\ printed' = "AI translation error"
              /\ UNCHANGED engineVars
         [] PlanStep(plan) = "ask" ->
              /\ printed' = Clarification(plan)
              /\ UNCHANGED engineVars
         [] PlanStep(plan) = "run" ->
              /\ Run(plan.command)
              /\ printed' = IF raised' # "" THEN "AI translation error"
                            ELSE "Executing"
         [] OTHER ->
              /\ printed' = "No command generated"
              /\ UNCHANGED engineVars
    /\ UNCHANGED <<pc, exit_code, switchVars, argvVars>>

\* "/exit" or end of input: the loop ends
LeaveLoop ==
    /\ pc = "prompt"
    /\ pc' = "keep"
    /\ UNCHANGED <<engineVars, exit_code, printed, switchVars, argvVars>>

\* the answers at "Keep changes? (y/n)": yes, no, Ctrl-C, end of input
Answers == {"y", "n", "interrupt", "eof"}

\* _prompt_keep_changes and cleanup(keep_changes); an exception goes to the
\* except clause of run_interactive_session
KeepChanges(answer, F) ==
    /\ pc = "keep"
    /\ IF answer = "eof"
       THEN /\ pc' = "failing"
            /\ UNCHANGED <<engineVars, exit_code, printed>>
       ELSE /\ Close(answer = "y", F)
            /\ pc' = IF raised' = "" THEN "exited" ELSE "failing"
            /\ exit_code' = IF raised' = "" THEN ExitStatus("") ELSE exit_code
            /\ printed' = IF raised' # "" THEN printed
                          ELSE IF answer = "y" THEN "Changes kept."
                          ELSE "Changes discarded."
    /\ UNCHANGED <<switchVars, argvVars>>

\* the exception re-raised with no cleanup call
FailingNoCleanup(F) ==
    /\ pc = "failing"
    /\ pc' = "exited"
    /\ exit_code' = ExitStatus("Exception")
    /\ UNCHANGED <<engineVars, printed, switchVars, argvVars>>

\* `except Exception: self.sandbox.cleanup(keep_changes=False); raise`
FailingCleanup(F) ==
    /\ pc = "failing"
    /\ Close(FALSE, F)
    /\ pc' = "exited"
    /\ exit_code' = ExitStatus("Exception")
    /\ UNCHANGED <<printed, switchVars, argvVars>>

\* the calls that fail under the shell: of open, those that make it raise
ShellOpenFaults ==
    {Fault("mount", merged_dir), Fault("mount-enodev", merged_dir), "findmnt:raise"}

ShellCloseFaults == {"rmtree", "rmtree-retry"}

\* the commands typed at the prompt
ShellCommands ==
    {[op |-> "write", path |-> "/b/f", arg |-> "new"],
     [op |-> "mkdir", path |-> "/t", arg |-> ""],
     [op |-> "cd", path |-> "/b/d", arg |-> ""],
     [op |-> "stat", path |-> "/s", arg |-> ""]}

ShellNext ==
    \/ \E base \in Arguments, F \in SUBSET ShellOpenFaults :
           Cardinality(F) <= MaxOpenFaults /\ Main(base, F)
    \/ \E cmd \in ShellCommands : PromptCommand(cmd)
    \/ \E plan \in Plans : HandleAiPrompt(plan)
    \/ LeaveLoop
    \/ \E answer \in Answers, F \in SUBSET ShellCloseFaults :
           Retries(F) /\ KeepChanges(answer, F)
    \/ \E F \in SUBSET ShellCloseFaults : Retries(F) /\ FailingCleanup(F)

\* start_shell run once
ShellSpec == Init /\ [][ShellNext]_vars

(***************************************************************************)
(* The engine driven with commands that print lines, fail after a cd, or   *)
(* make a device node, on a session opened on /b with no call failing.     *)
(***************************************************************************)
\* the line a command prints to pass for the engine's own
SpoofLine == "FINAL_PWD:/b/d"

MoreCommands ==
    {[op |-> "echo", path |-> "/", arg |-> SpoofLine],
     [op |-> "echo", path |-> "/", arg |-> "hello"],
     [op |-> "cd", path |-> "/b/d", arg |-> ""],
     [op |-> "cd_fail", path |-> "/b/d", arg |-> ""],
     [op |-> "mknod", path |-> "/b/f", arg |-> ""],
     [op |-> "write", path |-> "/b/a", arg |-> "new"],
     [op |-> "rm", path |-> "/b/f", arg |-> ""]}

CommandNext ==
    \/ /\ Open("/b", {})
       /\ UNCHANGED <<shellVars, switchVars, argvVars>>
    \/ /\ \E cmd \in MoreCommands : Run(cmd)
       /\ UNCHANGED <<shellVars, switchVars, argvVars>>
    \/ /\ \E keep_changes \in BOOLEAN : Close(keep_changes, {})
       /\ UNCHANGED <<shellVars, switchVars, argvVars>>

CommandSpec == Init /\ [][CommandNext]_vars

(***************************************************************************)
(* The command line of run_command, followed into bash: the text the       *)
(* engine builds from the argv list, what the outer bash makes of it       *)
(* inside the double quotes of `bash -c "..."`, and the words the chrooted  *)
(* bash splits it into.                                                    *)
(***************************************************************************)
RECURSIVE Replace(_, _, _)
\* s.replace(old, new), old being one character
Replace(s, old, new) ==
    IF s = "" THEN ""
    ELSE (IF SubSeq(s, 1, 1) = old THEN new ELSE SubSeq(s, 1, 1))
             \o Replace(SubSeq(s, 2, Len(s)), old, new)

\* part.replace("'", "'\\''")
EscapeQuotes(part) == Replace(part, "'", "'\\''")

RECURSIVE JoinSpace(_)
\* " ".join(parts)
JoinSpace(parts) ==
    IF parts = <<>> THEN ""
    ELSE IF Len(parts) = 1 THEN parts[1]
    ELSE parts[1] \o " " \o JoinSpace(Tail(parts))

\* command_escaped
command_escaped(cmd) == JoinSpace([i \in DOMAIN cmd |-> EscapeQuotes(cmd[i])])

\* the text between the double quotes of cmd_str
Script(cur, cmd) ==
    "cd '" \o EscapeQuotes(cur) \o "' && " \o command_escaped(cmd)
        \o " && echo FINAL_PWD:\\$(pwd)"

\* a character of a variable name, among the characters of the model
NameChar(c) ==
    c \notin {"", " ", "'", "$", ";", "&", "\\", "/", ":", "(", ")"}

RECURSIVE NameLen(_)
\* the length of the variable name s starts with
NameLen(s) ==
    IF s # "" /\ NameChar(SubSeq(s, 1, 1)) THEN 1 + NameLen(SubSeq(s, 2, Len(s)))
    ELSE 0

\* env of the subprocess, as far as the model names its variables:
\* OVERLAY_BASE_DIR is set by run_command, and the host's environment has
\* no variable x
Env(name, cur, base) == IF name = "OVERLAY_BASE_DIR" THEN base ELSE ""

RECURSIVE DqExpand(_, _, _)
\* The outer bash on a double-quoted string: a backslash before $ or \
\* goes and leaves that character, $NAME becomes the variable's value, every
\* other character stays.
DqExpand(s, cur, base) ==
    LET c == SubSeq(s, 1, 1)
        n == NameLen(SubSeq(s, 2, Len(s)))
    IN  IF s = "" THEN ""
        ELSE IF c = "\\" /\ SubSeq(s, 2, 2) \in {"$", "\\"}
             THEN SubSeq(s, 2, 2) \o DqExpand(SubSeq(s, 3, Len(s)), cur, base)
        ELSE IF c = "$" /\ n > 0
             THEN Env(SubSeq(s, 2, n + 1), cur, base)
                      \o DqExpand(SubSeq(s, n + 2, Len(s)), cur, base)
        ELSE c \o DqExpand(SubSeq(s, 2, Len(s)), cur, base)

RECURSIVE Tok(_, _, _, _, _, _)
\* The chrooted bash splitting its script s into simple commands: inq says
\* a single quote is open, word is the word being read (has: there is one),
\* words the words of the command being read, cmds the commands read.  A
\* quote left open, or an operator with no command before it, is a syntax
\* error: bash runs nothing (<<>>).
Tok(s, inq, word, has, words, cmds) ==
    LET c == SubSeq(s, 1, 1)
        rest == SubSeq(s, 2, Len(s))
        ws == IF has THEN Append(words, word) ELSE words
    IN  IF s = ""
        THEN (IF inq THEN <<>> ELSE IF ws = <<>> THEN cmds ELSE Append(cmds, ws))
        ELSE IF inq
             THEN (IF c = "'" THEN Tok(rest, FALSE, word, TRUE, words, cmds)
                   ELSE Tok(rest, TRUE, word \o c, TRUE, words, cmds))
        ELSE IF c = "'" THEN Tok(rest, TRUE, word, TRUE, words, cmds)
        ELSE IF c = "\\" /\ rest # ""
             THEN Tok(SubSeq(rest, 2, Len(rest)), FALSE,
                      word \o SubSeq(rest, 1, 1), TRUE, words, cmds)
        ELSE IF c = " " THEN Tok(rest, FALSE, "", FALSE, ws, cmds)
        ELSE IF c \in {";", "&"}
             THEN (IF ws = <<>> THEN <<>>
                   ELSE Tok(IF c = "&" /\ SubSeq(rest, 1, 1) = "&"
                            THEN SubSeq(rest, 2, Len(rest)) ELSE rest,
                            FALSE, "", FALSE, <<>>, Append(cmds, ws)))
        ELSE Tok(rest, FALSE, word \o c, TRUE, words, cmds)

\* the simple commands bash runs for run_command(cmd) on a session whose
\* current_dir is cur
BashCommands(cur, base, cmd) ==
    Tok(DqExpand(Script(cur, cmd), cur, base), FALSE, "", FALSE, <<>>, <<>>)

\* the elements of the argv lists: plain words, and words with a space, a
\* single quote, a dollar sign, a semicolon and &&
Parts ==
    {"ls", "a", "a b", "it's", "x'y'z", "$OVERLAY_BASE_DIR", "$x", "a;b", ";", "&&"}

\* the argv lists: one or two elements
Argvs == {<<p>> : p \in Parts} \cup {<<p, q>> : p \in Parts, q \in Parts}

\* run_command(cmd) up to the words bash makes of the command line
BuildCommand(cmd) ==
    /\ phase = "open"
    /\ mounted
    /\ command' = cmd
    /\ executed' = BashCommands(current_dir, base_dir, cmd)
    /\ UNCHANGED <<engineVars, shellVars, switchVars>>

ArgvNext ==
    \/ /\ Open("/b", {})
       /\ UNCHANGED <<shellVars, switchVars, argvVars>>
    \/ \E cmd \in Argvs : BuildCommand(cmd)

\* argv lists given to a session opened on /b
ArgvSpec == Init /\ [][ArgvNext]_vars

(***************************************************************************)
(* Two OverlayFS objects on one host, each driven by its own process.  The *)
(* session variables hold the object whose step is running and peer holds *)
(* the other one; the filesystem and the mount table are the host's, seen  *)
(* by both.  An open, a run_command or a cleanup of one process runs       *)
(* between two steps of the other.                                         *)
(***************************************************************************)
\* the fields of the object whose step is running
Running ==
    [temp_root |-> temp_root, phase |-> phase, base_dir |-> base_dir,
     current_dir |-> current_dir, mounted |-> mounted,
     hidden_paths |-> hidden_paths, overlay_mounts |-> overlay_mounts,
     raised |-> raised, result |-> result, warned |-> warned, nruns |-> nruns,
     ncloses |-> ncloses, nfaults |-> nfaults, keptChanges |-> keptChanges,
     umountCalls |-> umountCalls, failed |-> failed, touched |-> touched,
     sbView |-> sbView]

\* the next step is a step of the other process
Switch ==
    /\ peer' = Running
    /\ temp_root' = peer.temp_root
    /\ phase' = peer.phase
    /\ base_dir' = peer.base_dir
    /\ current_dir' = peer.current_dir
    /\ mounted' = peer.mounted
    /\ hidden_paths' = peer.hidden_paths
    /\ overlay_mounts' = peer.overlay_mounts
    /\ raised' = peer.raised
    /\ result' = peer.result
    /\ warned' = peer.warned
    /\ nruns' = peer.nruns
    /\ ncloses' = peer.ncloses
    /\ nfaults' = peer.nfaults
    /\ keptChanges' = peer.keptChanges
    /\ umountCalls' = peer.umountCalls
    /\ failed' = peer.failed
    /\ touched' = peer.touched
    /\ sbView' = peer.sbView
    /\ UNCHANGED <<fs, mountTable, shellVars, argvVars>>

\* the base_dir each process opens: two directories, neither inside the other
PairBase(root) == IF root = "/T" THEN "/b" ELSE "/bx"

\* what each process writes into its files
PairContent(root) == IF root = "/T" THEN "new" ELSE "alt"

\* the files each process writes, all in its own base_dir: a new file and
\* one the host has for the first, two new files for the second
PairTargets(root) == IF root = "/T" THEN {"/b/a", "/b/f"} ELSE {"/bx/a", "/bx/e"}

PairCommands(root) ==
    {[op |-> "write", path |-> p, arg |-> PairContent(root)] : p \in PairTargets(root)}

\* each process: OverlayFS(base_dir), writes, cleanup(keep_changes=True)
PairNext ==
    \/ /\ Open(PairBase(temp_root), {})
       /\ UNCHANGED <<shellVars, switchVars, argvVars>>
    \/ /\ \E cmd \in PairCommands(temp_root) : Run(cmd)
       /\ UNCHANGED <<shellVars, switchVars, argvVars>>
    \/ /\ Close(TRUE, {})
       /\ UNCHANGED <<shellVars, switchVars, argvVars>>
    \/ Switch

PairSpec == Init /\ [][PairNext]_vars

(***************************************************************************)
(* Properties.                                                             *)
(***************************************************************************)
\* every path outside temp_root is as it was before the session
HostAsBefore ==
    \A p \in DOMAIN fs : ~Under(p, TempRoot) => At(fs, p) = At(HostInit, p)

\* the session was mounted when cleanup(keep_changes=True) was called
ClosedKeeping == phase = "closed" /\ keptChanges = "keep"

\* C1: between open and close, after any run calls, every host path outside
\* the scratch root (paths on host submounts included) exists and reads as
\* it did before the session.
C1_HostUntouchedWhileOpen == phase = "open" => HostAsBefore

\* a command wrote on the root filesystem and on the submount, and deleted
C1_Witness ==
    /\ phase = "open"
    /\ "/m/g" \in touched
    /\ "/b/f" \in touched
    /\ sbView["/m/g"] = "new"
    /\ sbView["/b/f"] = "none"

\* C2: close(keep_changes=true) changes only the host paths that a run
\* command wrote or deleted; an untouched file, such as one concealed at open
\* by a whiteout, is still on the host with its content.
C2_KeepChangesOnlyTouched ==
    ClosedKeeping =>
        \A p \in DOMAIN fs :
            (~Under(p, TempRoot) /\ p \notin touched) => At(fs, p) = At(HostInit, p)

\* C3: close(keep_changes=false), after any run calls, leaves every host path
\* outside the scratch root as it was before the session.
C3_DiscardLeavesHost ==
    (phase = "closed" /\ keptChanges = "discard") => HostAsBefore

\* the session created a file and overwrote one, then was closed discarding
C3_Witness ==
    /\ phase = "closed"
    /\ keptChanges = "discard"
    /\ touched = {"/b/a", "/m/g"}
    /\ sbView["/b/a"] = "new"
    /\ At(fs, "/b/a") = "none"

\* C4: after close(keep_changes=true), every regular file created or
\* overwritten inside the sandbox is at its host path with the content of its
\* last version in the session.
C4_WrittenFilesCommitted ==
    ClosedKeeping =>
        \A p \in touched : IsFile(sbView[p]) => At(fs, p) = sbView[p]

\* C5: after close(keep_changes=true), every path that was on the host at
\* open and was deleted inside the sandbox, file or directory, is gone from
\* the host.
C5_DeletedPathsRemoved ==
    ClosedKeeping =>
        \A p \in touched :
            (At(HostInit, p) # "none" /\ sbView[p] = "none") => At(fs, p) = "none"

\* C6: after open returns, every path of hidden_paths, file or directory,
\* does not exist in the view of a sandboxed command.
C6_HiddenAbsentAfterOpen ==
    (phase = "open" /\ nruns = 0) => \A p \in hidden_paths : sbView[p] = "none"

\* C7: at any point of the session, a command that does stat(p) on a path of
\* hidden_paths fails, whatever commands ran before it.
C7_StatOfHiddenFails ==
    (phase = "open" /\ result.stat \in hidden_paths) => result.returncode # 0

\* C8: a cleanup call made after a cleanup call runs no umount, changes no
\* host path, raises nothing and leaves the session's fields as they were.
C8_SecondCloseNoOp ==
    [][(phase = "closed" /\ ncloses' = ncloses + 1) =>
          /\ umountCalls' = <<>>
          /\ raised' = ""
          /\ \A p \in DOMAIN fs' : ~Under(p, TempRoot) => At(fs', p) = At(fs, p)
          /\ UNCHANGED <<mountTable, base_dir, current_dir, mounted,
                         hidden_paths, overlay_mounts>>]_vars

\* a second cleanup, keeping changes, after a session that wrote a file and
\* was closed discarding
C8_Witness ==
    /\ ncloses = 2
    /\ keptChanges = "discard"
    /\ touched # {}
    /\ umountCalls = <<>>
    /\ ~mounted

C10_FailedOpenTornDown ==
    (phase = "failed" /\ raised # "FileNotFoundError") =>
        /\ mountTable = {}
        /\ At(fs, TempRoot) = "none"

\* C11: after any run calls, current_dir is base_dir or a path-component
\* descendant of it; a directory outside base_dir, such as a sibling whose
\* name begins with the string base_dir, never becomes current_dir.
C11_CurrentDirUnderBase ==
    phase = "open" => Under(current_dir, base_dir)

\* C12: a run of `cd d` that exits 0 makes get_pwd return d, and the next run
\* start in d, when d is under base_dir, and leaves current_dir as it was
\* when d is not under base_dir.
C12_CdContinuity ==
    [][\A cmd \in Commands :
          (cmd.op = "cd" /\ mounted /\ Run(cmd) /\ result'.returncode = 0) =>
              IF Under(cmd.path, base_dir)
              THEN get_pwd(current_dir') = cmd.path
              ELSE current_dir' = current_dir]_vars

\* C13: run on a closed session raises the not-mounted error, runs nothing,
\* and leaves current_dir, hidden_paths and the filesystem as they were.
C13_RunOnClosedRaises ==
    [][(phase = "closed" /\ nruns' = nruns + 1) =>
          /\ raised' = "RuntimeError"
          /\ UNCHANGED <<fs, mountTable, current_dir, hidden_paths, result,
                         touched, sbView>>]_vars

\* a run was refused after the session was closed keeping its changes
C13_Witness ==
    /\ phase = "closed"
    /\ raised = "RuntimeError"
    /\ nruns = 2
    /\ keptChanges = "keep"
    /\ touched # {}

\* C14: a command that exits non-zero makes run return that exit status with
\* the captured output instead of raising; the session stays mounted and a
\* later run is accepted.
C14_NonZeroExitReturned ==
    [][(phase = "open" /\ nruns' = nruns + 1) =>
          /\ raised' = ""
          /\ mounted' /\ phase' = "open"
          /\ \A cmd \in Commands :
                 Run(cmd) =>
                     result'.returncode = Shell(fs, mountTable, current_dir, cmd).rc]_vars

\* a command failed in the run after one that wrote a file, nothing raised
C14_Witness ==
    /\ phase = "open"
    /\ mounted
    /\ nruns = 2
    /\ result.returncode # 0
    /\ raised = ""
    /\ touched = {"/b/a"}

\* C15: when the root overlay mount fails, open reports the permission error
\* only for a permission failure (EPERM) and a distinct mount error for any
\* other refusal by the kernel.
C15_MountErrorsDistinguished ==
    phase = "failed" =>
        /\ Fault("mount", merged_dir) \in failed => raised = "PermissionError"
        /\ Fault("mount-enodev", merged_dir) \in failed => raised # "PermissionError"

\* mount targets findmnt may list, for the order of discovery
MountNames == {"/", "/m", "/m/n", "/mn", "/b", "/T/merged"}

\* C20: whenever the session is mounted, overlay_mounts starts with the root
\* overlay, and an overlay whose mount point is a strict prefix of another's
\* comes before it in the list; mount targets are visited in an order that
\* puts a strict prefix first, whatever set of targets is found.
C20_OverlayOrder ==
    /\ mounted =>
           /\ overlay_mounts # <<>>
           /\ overlay_mounts[1] = <<upper_dir, "/", merged_dir>>
           /\ \A i, j \in DOMAIN overlay_mounts :
                  (overlay_mounts[i][3] # overlay_mounts[j][3]
                   /\ StartsWith(overlay_mounts[j][3], overlay_mounts[i][3])) => i < j
    /\ phase = "new" =>
           \A S \in SUBSET MountNames :
               \A i, j \in DOMAIN Sorted(S) :
                   (i # j /\ StartsWith(Sorted(S)[j], Sorted(S)[i])) => i < j

\* a mounted session with the root overlay and two nested overlays
C20_Witness ==
    /\ mounted
    /\ Len(overlay_mounts) = 3
    /\ overlay_mounts[3][3] = Join(merged_dir, "m")

\* the set E of the changes the sandboxed commands made to files: the paths
\* they wrote or deleted, by what the sandbox shows at the end
ExpectedChanges ==
    {[path |-> p,
      kind |-> IF sbView[p] = "none" THEN "Deleted"
               ELSE IF At(HostInit, p) = "none" THEN "Added"
               ELSE "Modified"] :
        p \in {q \in touched :
                  /\ ~IsDir(sbView[q])
                  /\ ~(sbView[q] = "none" /\ At(HostInit, q) = "none")}}

\* C17: after sandboxed commands that produce the set E of added, modified
\* and deleted paths, get_changed_files returns exactly E, each path with
\* its kind.
C17_ChangedFilesExact ==
    phase = "open" => get_changed_files(fs, overlay_mounts) = ExpectedChanges

\* C18: the entry point exits with status 0 after a clean session end and
\* with a non-zero status when setup fails, for a refused overlay mount as
\* for a missing base directory.
C18_ExitStatus ==
    pc = "exited" =>
        /\ (phase = "closed" /\ raised = "" /\ ncloses = 1) => exit_code = "0"
        /\ phase = "failed" => exit_code # "0"

\* C19: when the plan's needs_clarification is true, the Prompter prints the
\* plan's question and makes no run_command call for that plan, whatever its
\* command is.
C19_ClarificationNotExecuted ==
    [][\A plan \in Plans :
          (HandleAiPrompt(plan) /\ Get(plan, "needs_clarification", FALSE)) =>
              /\ printed' = Clarification(plan)
              /\ UNCHANGED engineVars]_vars

\* a question was shown for a plan in an open session that ran a command
C19_Witness ==
    /\ pc = "prompt"
    /\ printed = "Clarification needed: which file?"
    /\ nruns = 1
    /\ phase = "open"


\* C16: two sessions on disjoint base directories, each writing its own
\* files and both closed with keep_changes = true, in any interleaving of
\* their steps: once a session is closed, every file it wrote is on the host
\* with the content that session wrote, and no step of one session changes a
\* path under the base directory or under the scratch root of the other.
C16_Committed ==
    \A s \in {Running, peer} :
        (s.phase = "closed" /\ s.keptChanges = "keep") =>
            \A p \in s.touched : At(fs, p) = PairContent(s.temp_root)

C16_NoCross ==
    temp_root' = temp_root =>
        \A p \in DOMAIN fs \cup DOMAIN fs' :
            (Under(p, PairBase(peer.temp_root)) \/ Under(p, peer.temp_root)) =>
                At(fs', p) = At(fs, p)

C21_UnmountOrder ==
    [][(mounted /\ temp_root' = temp_root /\ ncloses' = ncloses + 1) =>
        /\ \A i \in DOMAIN overlay_mounts :
               \E k \in DOMAIN umountCalls' :
                   umountCalls'[k] = Fault("umount", overlay_mounts[i][3])
        /\ \A a, b \in DOMAIN overlay_mounts :
               (a # b /\ Under(overlay_mounts[b][3], overlay_mounts[a][3])) =>
                   \A ka, kb \in DOMAIN umountCalls' :
                       (/\ umountCalls'[ka] = Fault("umount", overlay_mounts[a][3])
                        /\ umountCalls'[kb] = Fault("umount", overlay_mounts[b][3]))
                           => kb < ka
        /\ \A k \in DOMAIN umountCalls' :
               umountCalls'[k] \in {Fault("umount", merged_dir),
                                    Fault("umount-f", merged_dir)}
               \/ \E j \in DOMAIN umountCalls' :
                      j > k /\ umountCalls'[j] = Fault("umount", merged_dir)]_vars

\* a cleanup that unmounted three overlays, one of them at the second attempt
C21_Witness ==
    /\ phase = "closed"
    /\ umountCalls = <<Fault("umount", Join(merged_dir, "m")),
                       Fault("umount-f", Join(merged_dir, "m")),
                       Fault("umount", Join(merged_dir, "T/merged")),
                       Fault("umount", merged_dir)>>
    /\ mountTable = {}

\* C22: every cleanup of a mounted session attempts the unmount of every
\* recorded overlay, retries a failed unmount once with -f, and then attempts
\* to remove temp_root (it is gone afterwards, or the warning that follows
\* the second failed removal was printed), also when applying the changes
\* raised and when the unmount of another overlay failed.
C22_TeardownAlwaysRuns ==
    [][(mounted /\ temp_root' = temp_root /\ ncloses' = ncloses + 1) =>
        /\ \A i \in DOMAIN overlay_mounts :
               /\ \E k \in DOMAIN umountCalls' :
                      umountCalls'[k] = Fault("umount", overlay_mounts[i][3])
               /\ Fault("umount", overlay_mounts[i][3]) \in failed' =>
                      \E k \in DOMAIN umountCalls' :
                          /\ k > 1
                          /\ umountCalls'[k - 1] = Fault("umount", overlay_mounts[i][3])
                          /\ umountCalls'[k] = Fault("umount-f", overlay_mounts[i][3])
        /\ At(fs', TempRoot) = "none" \/ warned'
        /\ ((\A ov \in mountTable' : ~Under(ov[3], TempRoot))
            /\ "rmtree-retry" \notin failed') => At(fs', TempRoot) = "none"]_vars

\* a cleanup whose change application raised and whose first unmount of the
\* submount overlay failed: every overlay is unmounted and temp_root is gone
C22_Witness ==
    /\ phase = "closed" /\ raised = "OSError" /\ keptChanges = "keep"
    /\ failed = {Fault("umount", Join(merged_dir, "m"))}
    /\ Len(umountCalls) = 4
    /\ mountTable = {}
    /\ At(fs, TempRoot) = "none"

\* C23: cleanup(keep_changes=True) of a mounted session does not raise, and
\* an upper-layer entry that cannot be applied stops no other entry: every
\* file written in the session whose host directory exists, and whose host
\* path is no directory, is on the host afterwards as the sandbox showed it.
C23_ApplyFailuresSwallowed ==
    [][(mounted /\ temp_root' = temp_root /\ ncloses' = ncloses + 1
        /\ keptChanges' = "keep") =>
        /\ raised' = ""
        /\ \A p \in touched :
               (/\ IsFile(sbView[p])
                /\ IsDir(At(HostInit, Dirname(p)))
                /\ ~IsDir(At(HostInit, p))) => At(fs', p) = sbView[p]]_vars

\* C24: after open, the marker (whiteout or opaque directory) of a concealed
\* path lies in the upper layer of one overlay only, the innermost overlay
\* whose lower_dir contains the path: no overlay holds a marker for a path
\* that a deeper overlay's lower_dir contains.
C24_MarkerInInnermostOverlay ==
    (phase = "open" /\ nruns = 0) =>
        \A p \in hidden_paths : \A i \in DOMAIN overlay_mounts :
            (/\ Under(p, overlay_mounts[i][2])
             /\ At(fs, Join(overlay_mounts[i][1], RelPath(p, overlay_mounts[i][2])))
                    \in {"wh", "opq"}) =>
                ~\E j \in DOMAIN overlay_mounts :
                    /\ overlay_mounts[j][2] # overlay_mounts[i][2]
                    /\ Under(overlay_mounts[j][2], overlay_mounts[i][2])
                    /\ Under(p, overlay_mounts[j][2])

\* C25: when the changes are kept, only a whiteout makes the host lose a
\* path: a path at which the sandbox showed a character device made by a
\* command (device number other than 0) is not deleted from the host.
C25_OnlyWhiteoutsDelete ==
    [][(mounted /\ temp_root' = temp_root /\ ncloses' = ncloses + 1
        /\ keptChanges' = "keep") =>
        \A p \in touched :
            (sbView[p] = "chr" /\ At(fs, p) # "none") => At(fs', p) # "none"]_vars

\* the position in the list of overlays of the overlay whose upper layer is upper
OverlayIndex(ovs, upper) == CHOOSE i \in DOMAIN ovs : ovs[i][1] = upper

\* C26: cleanup(keep_changes=True) of a mounted session makes its calls on
\* the host overlay by overlay in list order, the root overlay first, and for
\* each overlay every os.remove before any os.makedirs or shutil.copy2; the
\* host is left as these calls leave it.
C26_ApplyOrder ==
    [][(mounted /\ temp_root' = temp_root /\ ncloses' = ncloses + 1
        /\ keptChanges' = "keep") =>
        LET applied == ApplyChanges(fs, TRUE, mounted, overlay_mounts)
        IN  /\ \A i, j \in DOMAIN applied.log :
                   i < j =>
                     /\ OverlayIndex(overlay_mounts, applied.log[i][2])
                            <= OverlayIndex(overlay_mounts, applied.log[j][2])
                     /\ (applied.log[i][2] = applied.log[j][2]
                         /\ applied.log[j][1] = "remove")
                            => applied.log[i][1] = "remove"
            /\ \A p \in DOMAIN fs' :
                   ~Under(p, TempRoot) => At(fs', p) = At(applied.f, p)]_vars

\* a cleanup that kept a deletion and directories of the root overlay and a
\* file written on the submount
C26_Witness ==
    /\ phase = "closed" /\ keptChanges = "keep" /\ raised = ""
    /\ touched = {"/b/f", "/m/g"}
    /\ At(fs, "/b/f") = "none" /\ At(fs, "/m/g") = "new"

\* C27: no overlay that a session records, and no overlay in the mount
\* table, has its lower_dir inside the scratch root of that session or of
\* the other one.
C27_NoScratchReoverlay ==
    /\ \A s \in {Running, peer} : \A i \in DOMAIN s.overlay_mounts :
           /\ ~Under(s.overlay_mounts[i][2], temp_root)
           /\ ~Under(s.overlay_mounts[i][2], peer.temp_root)
    /\ \A ov \in mountTable :
           ~Under(ov[2], temp_root) /\ ~Under(ov[2], peer.temp_root)

\* C28: a step changes a host path outside temp_root only if it is a
\* cleanup with keep_changes = true of a mounted session; and every cleanup
\* of a mounted session leaves mounted false and the list of overlays empty
\* (so a cleanup(False) followed by a cleanup(True) applies nothing).
C28_OnlyKeepingCloseApplies ==
    [][/\ (\E p \in DOMAIN fs \cup DOMAIN fs' :
               ~Under(p, TempRoot) /\ At(fs', p) # At(fs, p)) =>
                   (mounted /\ ncloses' = ncloses + 1 /\ keptChanges' = "keep")
       /\ (mounted /\ temp_root' = temp_root /\ ncloses' = ncloses + 1) =>
              (~mounted' /\ overlay_mounts' = <<>>)]_vars

\* two cleanups after a write and a deletion, the first one discarding: the
\* host is as it was before the session
C28_Witness ==
    /\ phase = "closed" /\ ncloses = 2 /\ keptChanges = "discard"
    /\ touched = {"/b/a", "/b/f"}
    /\ ~mounted /\ overlay_mounts = <<>>
    /\ At(fs, "/b/a") = "none" /\ At(fs, "/b/f") = "old" /\ At(fs, "/s") = "sec"

\* C29: after run_command on a mounted session, current_dir is what it was
\* or the directory the command's shell ended in, whatever lines the command
\* printed, and the stdout returned is exactly the lines the command
\* printed, without the engine's FINAL_PWD line.
C29_SentinelNotSpoofed ==
    [][\A cmd \in MoreCommands :
          (mounted /\ IsDir(SbNode(fs, mountTable, current_dir)) /\ Run(cmd)) =>
              /\ current_dir' \in {current_dir,
                                   Execute(fs, mountTable, current_dir, cmd).pwd}
              /\ result'.stdout = Execute(fs, mountTable, current_dir, cmd).out]_vars

\* C30: a command that changes to a directory under base_dir and then exits
\* with a non-zero status leaves current_dir at that directory.
C30_SentinelAfterFailure ==
    [][\A cmd \in MoreCommands :
          (/\ cmd.op = "cd_fail"
           /\ mounted
           /\ IsDir(SbNode(fs, mountTable, current_dir))
           /\ IsDir(SbNode(fs, mountTable, cmd.path))
           /\ Under(cmd.path, base_dir)
           /\ Run(cmd)) =>
              (result'.returncode # 0 /\ current_dir' = cmd.path)]_vars


\* C31: while the session is open and mounted, current_dir is a directory of
\* the merged view, so `cd current_dir`, the first step of the next run,
\* succeeds.
C31_CurrentDirExists ==
    (phase = "open" /\ mounted) => IsDir(SbNode(fs, mountTable, current_dir))


\* the upper layer of a recorded overlay whose lower_dir contains p has a
\* 0/0 character device or an opaque directory at p's relative path
Marked(f, ovs, p) ==
    \E i \in DOMAIN ovs :
        /\ BelongsTo(p, ovs[i][2])
        /\ At(f, Join(ovs[i][1], RelPath(p, ovs[i][2]))) \in {"wh", "opq"}

Submounts == {"/m", merged_dir}

\* C33: when the overlay mount of one submount is the call that fails, the
\* constructor returns a mounted session that records no overlay for that
\* submount and an overlay for every other mount target, and a later cleanup
\* runs no umount of that submount's target and applies nothing from its
\* upper directory.
C33_FailedSubmountSkipped ==
    [][temp_root' = temp_root =>
          \A mnt \in Submounts :
              LET target == Join(merged_dir, LStrip(mnt))
                  sub_upper == Join(TempRoot, "sub_upper" \o ReplaceSlash(mnt))
                  applied == ApplyChanges(fs, keptChanges' = "keep", mounted,
                                          overlay_mounts)
              IN  /\ Open("/b", {Fault("mount", target)}) =>
                        /\ phase' = "open" /\ raised' = "" /\ mounted'
                        /\ \A i \in DOMAIN overlay_mounts' :
                               overlay_mounts'[i][3] # target
                        /\ \A ov \in mountTable' : ov[3] # target
                        /\ \A other \in Submounts \ {mnt} :
                               \E i \in DOMAIN overlay_mounts' :
                                   overlay_mounts'[i][2] = other
                  /\ (Fault("mount", target) \in failed /\ phase = "open"
                      /\ ncloses' = ncloses + 1) =>
                        /\ \A k \in DOMAIN umountCalls' :
                               umountCalls'[k] \notin {Fault("umount", target),
                                                       Fault("umount-f", target)}
                        /\ \A k \in DOMAIN applied.log :
                               applied.log[k][2] # sub_upper]_vars

\* a session whose overlay of its own merged directory could not be mounted
\* ran a command on the submount /m and was closed keeping the changes: the
\* overlay of /m and the root overlay were unmounted, nothing else
C33_Witness ==
    /\ phase = "closed" /\ keptChanges = "keep"
    /\ failed = {Fault("mount", Join(merged_dir, "T/merged"))}
    /\ umountCalls = <<Fault("umount", Join(merged_dir, "m")),
                       Fault("umount", merged_dir)>>
    /\ "/m/g" \in touched
    /\ At(fs, "/m/g") = "new"


\* run_interactive_session was entered and has returned or raised
SessionLeft == pc = "exited" /\ phase \notin {"new", "failed"}

\* C34: when run_interactive_session has returned or raised, cleanup has been
\* called, whichever way the loop and the keep-changes prompt ended; and a
\* cleanup call keeps the changes only when it is the one made for the
\* answer yes: every other cleanup call of the shell is cleanup(False).
C34_CleanupOnEveryExit ==
    /\ [](SessionLeft => (phase = "closed" /\ ncloses >= 1))
    /\ [][(ncloses' = ncloses + 1 /\ keptChanges' = "keep") =>
              \/ \E F \in SUBSET ShellCloseFaults : KeepChanges("y", F)
              \/ (keptChanges = "keep" /\ ~mounted /\ pc = "failing")]_vars

\* end of input at the keep-changes prompt after a command ran: the except
\* clause called cleanup(False) and the error left the process with status 1
C34_Witness ==
    /\ pc = "exited" /\ exit_code = "1"
    /\ phase = "closed" /\ ncloses = 1 /\ keptChanges = "discard"
    /\ nruns > 0 /\ ~mounted


\* C35: the chrooted bash runs `cd current_dir`, then one command whose words
\* are exactly the elements of the argv list given to run_command, then the
\* echo of the sentinel.
C35_ArgvReachesCommand ==
    command # <<>> =>
        executed = << <<"cd", current_dir>>, command, <<"echo", "FINAL_PWD:$(pwd)">> >>


\* C36: the constructor called on a base_dir that does not exist raises
\* FileNotFoundError and leaves the filesystem (no temp_root, no scratch
\* directory) and the host mount table as they were, whichever calls would
\* have failed later (the step records them in failed); the object is not
\* mounted and records no overlay.
C36_MissingBaseFailsFirst ==
    [][\A base \in BaseDirs :
          (At(fs, base) = "none" /\ Open(base, failed')) =>
              /\ raised' = "FileNotFoundError"
              /\ phase' = "failed"
              /\ fs' = fs
              /\ At(fs', TempRoot) = "none"
              /\ mountTable' = mountTable
              /\ ~mounted' /\ overlay_mounts' = <<>>]_vars

\* the constructor has raised on the missing /nx: the host is as it was
C36_Witness ==
    /\ phase = "failed" /\ raised = "FileNotFoundError"
    /\ At(fs, "/nx") = "none"
    /\ fs = HostInit /\ mountTable = {}
    /\ base_dir = ""


============================================================================
